---------------------------- MODULE Spec2Model ----------------------------
(***************************************************************************)
(* Model of doc/conf.py of kevinpt/evfs: the Sphinx configuration script   *)
(* and its version extractor parse_build_version.                          *)
(*                                                                         *)
(* A line of the header file is a sequence of tokens, each token a piece   *)
(* of the line's text (Str gives the text back).  The tokens are chosen so *)
(* that matching the regular expression of conf.py:21 token by token is    *)
(* the same as matching it character by character:                         *)
(*   - #define and _VERSION are the two literals of the pattern; no        *)
(*     concatenation of the other tokens contains either of them;          *)
(*   - a white-space token is one character of \s, a word token consists   *)
(*     of \w characters only, and every other token has a character that   *)
(*     is not \w at a place where \w+ would have to cross it;              *)
(*   - only the line end is a character that the dot does not match.       *)
(***************************************************************************)
EXTENDS Integers, Sequences, FiniteSets, TLC

\* Largest number of lines of the header file.
MaxLines == 2

----------------------------------------------------------------------------
(* Tokens and character classes of the pattern (conf.py:21)                *)

Q == "\""

\* \s : space, tab and the line end readlines() keeps on each line.
WsTokens == {" ", "\t", "\n"}

\* \w+ : tokens made of word characters only.
WordTokens == {"FOO", "_VERSION", "_MAJOR", "_VER"}

IsWs(t) == t \in WsTokens

IsWord(t) == t \in WordTokens

\* The dot matches every character but the line end (no re.DOTALL).
IsDot(t) == t # "\n"

\* The text of a token sequence.
RECURSIVE Str(_)
Str(s) == IF s = <<>> THEN "" ELSE Head(s) \o Str(Tail(s))

----------------------------------------------------------------------------
(* The call of re.match on a line (conf.py:21).  The pattern is            *)
(*   ^#define  \s+  \w+_VERSION  \s+  and a quoted group 1 of any characters *)

\* The positions i at which a run \s+ starting at position from can end.
WsEnds(ln, from) ==
  { i \in from..Len(ln) : \A k \in from..i : IsWs(ln[k]) }

\* Mutant: \w*_VERSION, the suffix alone is an identifier.
IdentEnds_NoPrefix(ln, from) ==
  { j \in from..Len(ln) :
      /\ \A k \in from..(j-1) : IsWord(ln[k])
      /\ ln[j] = "_VERSION" }

\* Mutant: the suffix is searched for anywhere in the identifier (\w*).
IdentEnds_Unanchored(ln, from) ==
  { j \in (from+1)..Len(ln) :
      /\ \A k \in from..j : IsWord(ln[k])
      /\ \E v \in (from+1)..j : ln[v] = "_VERSION" }

\* The positions j at which \w+_VERSION starting at position from can end:
\* \w+ takes ln[from..j-1], at least one token, and the literal is ln[j].
IdentEnds(ln, from) ==
  { j \in (from+1)..Len(ln) :
      /\ \A k \in from..(j-1) : IsWord(ln[k])
      /\ ln[j] = "_VERSION" }

\* The positions e of the closing quote of group 1 whose opening quote is
\* at position oq: the group takes ln[oq+1..e-1], none of it a line end.
GroupEnds(ln, oq) ==
  { e \in (oq+1)..Len(ln) :
      /\ ln[e] = Q
      /\ \A k \in (oq+1)..(e-1) : IsDot(ln[k]) }

\* Mutant: the pattern is searched for after leading white space.
MatchStart_SkipWs(ln) ==
  IF \E p \in 1..Len(ln) : ~IsWs(ln[p])
    THEN CHOOSE p \in 1..Len(ln) :
           ~IsWs(ln[p]) /\ \A k \in 1..(p-1) : IsWs(ln[k])
    ELSE 1

\* re.match tries the pattern at the first character of the line only, and
\* the anchor ^ says the same.
MatchStart(ln) == 1

\* Mutant: the quotes are optional; a value without them runs to the end
\* of the line.
ValueSpans_Unquoted(ln, k) ==
  IF k + 1 <= Len(ln) /\ ln[k+1] = Q
    THEN { <<k+1, e>> : e \in GroupEnds(ln, k+1) }
    ELSE LET stop == IF ln[Len(ln)] = "\n" THEN Len(ln) ELSE Len(ln) + 1
         IN  IF k + 1 < stop THEN { <<k, stop>> } ELSE {}

\* The spans <<oq, e>> of the group that start right after the white space
\* ending at position k: opening quote at oq = k+1, closing quote at e.
ValueSpans(ln, k) ==
  IF k + 1 <= Len(ln) /\ ln[k+1] = Q
    THEN { <<k+1, e>> : e \in GroupEnds(ln, k+1) }
    ELSE {}

\* Every way the whole pattern matches ln: the spans <<oq, e>> of the
\* quotes around group 1.
MatchSpans(ln) ==
  LET s == MatchStart(ln) IN
  IF s <= Len(ln) /\ ln[s] = "#define"
    THEN UNION { UNION { UNION { ValueSpans(ln, k)
                                 : k \in WsEnds(ln, j+1) }
                         : j \in IdentEnds(ln, i+1) }
                 : i \in WsEnds(ln, s+1) }
    ELSE {}

\* if(m):
re_match(ln) == MatchSpans(ln) # {}

\* The match the engine reports: every quantifier is greedy, so group 1
\* runs to the last quote of the line that lets the pattern match.
GroupSpan(ln) ==
  CHOOSE s \in MatchSpans(ln) : \A t \in MatchSpans(ln) : s[2] >= t[2]

\* m.group(1)
group1(ln) ==
  LET s == GroupSpan(ln) IN Str(SubSeq(ln, s[1] + 1, s[2] - 1))

----------------------------------------------------------------------------
(* The header files the script is run on                                   *)

Sp == <<" ">>

FooVersion == <<"FOO", "_VERSION">>

Quoted(v) == <<Q, v, Q>>

\* A line in the shape of a definition, part by part.
LineOf(pre, ws1, ident, ws2, value, tail) ==
  pre \o <<"#define">> \o ws1 \o ident \o ws2 \o value \o tail \o <<"\n">>

Pres == { <<>>, <<" ", " ">> }

Gaps == { <<>>, <<" ">>, <<"\t", " ">> }

Idents == { FooVersion, <<"_VERSION">>, <<"FOO", "_VERSION", "_MAJOR">>,
            <<"FOO", "_VER">>, <<"_VERSION", "_VERSION">> }

Values == { Quoted("2.3.1"), Quoted("9.9"), <<"2.3.1">>, <<Q, Q>>,
            <<Q, "2.3.1">> }

Tails == { <<" ", Q, "x", Q>>, <<" ", "/*", Q, "*/">> }

Lines ==
  { LineOf(p, Sp, FooVersion, Sp, v, <<>>) : p \in Pres, v \in Values }
  \cup { LineOf(<<>>, Sp, FooVersion, Sp, v, t)
         : v \in { Quoted("2.3.1"), <<"2.3.1">> }, t \in Tails }
  \cup { LineOf(<<>>, g1, FooVersion, g2, Quoted("2.3.1"), <<>>)
         : g1 \in Gaps, g2 \in Gaps }
  \cup { LineOf(<<>>, Sp, id, Sp, Quoted("2.3.1"), <<>>) : id \in Idents }
  \cup { <<"\n">>, <<"//", " ", "FOO", "\n">> }

\* A last line that the file does not end with a line end.
NoEol(ln) == SubSeq(ln, 1, Len(ln) - 1)

LastLines ==
  { NoEol(LineOf(<<>>, Sp, FooVersion, Sp, v, <<>>))
    : v \in { Quoted("9.9"), <<"2.3.1">> } }

AllLines == Lines \cup LastLines

\* What readlines() can return: every line but the last ends with a line
\* end, and no line is empty.
Files ==
  UNION { { f \in [1..n -> AllLines] :
              \A i \in 1..(n-1) : f[i] \in Lines }
          : n \in 0..MaxLines }

----------------------------------------------------------------------------
(* The run of the configuration script                                     *)

VARIABLES
  fileKind,  \* what open and readlines do with the header file
  content,   \* the lines of the header file
  pc,        \* the statement the script is at
  calls,     \* invocations of parse_build_version so far
  handles,   \* read handles that are open
  lns,       \* the list fh.readlines() returned
  idx,       \* lines the for loop has taken from lns
  retval,    \* <<v>> once parse_build_version has returned v
  exc,       \* the exception that ended the run, "" if none
  release,   \* <<v>> once release is bound to v
  names,     \* the configuration values bound so far
  stdout     \* the lines printed

vars == <<fileKind, content, pc, calls, handles, lns, idx, retval, exc,
          release, names, stdout>>

\* open raises for a file that is missing or may not be read; readlines
\* raises for a file whose bytes are not text in the default encoding.
FileKinds == {"ok", "missing", "unreadable", "undecodable"}

OpenError(kind) ==
  CASE kind = "missing" -> "FileNotFoundError"
    [] kind = "unreadable" -> "PermissionError"
    [] OTHER -> ""

ReadError(kind) == IF kind = "undecodable" THEN "UnicodeDecodeError" ELSE ""

\* return '1.0.0'
DefaultVersion == "1.0.0"

ProjectNames == {"project", "copyright", "author"}

GeneralNames == {"extensions", "templates_path", "exclude_patterns"}

HtmlNames == {"html_theme", "html_static_path", "html_theme_options",
              "html_sidebars", "html_logo", "cautodoc_root"}

Init ==
  /\ fileKind \in FileKinds
  /\ content \in (IF fileKind = "ok" THEN Files ELSE {<<>>})
  /\ pc = "project"
  /\ calls = 0
  /\ handles = 0
  /\ lns = <<>>
  /\ idx = 0
  /\ retval = <<>>
  /\ exc = ""
  /\ release = <<>>
  /\ names = {"re", "parse_build_version"}
  /\ stdout = <<>>

\* project = ..., copyright = ..., author = ...
ProjectInfo ==
  /\ pc = "project"
  /\ names' = names \cup ProjectNames
  /\ pc' = "call"
  /\ UNCHANGED <<fileKind, content, calls, handles, lns, idx, retval, exc,
                 release, stdout>>

\* The call in: release = parse_build_version(...)
CallParse ==
  /\ pc = "call"
  /\ calls' = calls + 1
  /\ pc' = "open"
  /\ UNCHANGED <<fileKind, content, handles, lns, idx, retval, exc,
                 release, names, stdout>>

\* with open(fname, 'r') as fh:   the file opens
OpenOk ==
  /\ pc = "open"
  /\ OpenError(fileKind) = ""
  /\ handles' = handles + 1
  /\ pc' = "readlines"
  /\ UNCHANGED <<fileKind, content, calls, lns, idx, retval, exc,
                 release, names, stdout>>

\* Mutant: a failure to open is caught and the default is returned.
OpenFail_Fallback ==
  /\ pc = "open"
  /\ OpenError(fileKind) # ""
  /\ retval' = <<DefaultVersion>>
  /\ pc' = "return"
  /\ UNCHANGED <<fileKind, content, calls, handles, lns, idx, exc,
                 release, names, stdout>>

\* with open(fname, 'r') as fh:   open raises; nothing catches it, neither
\* in the function nor around the call, so the script ends here.
OpenFail ==
  /\ pc = "open"
  /\ OpenError(fileKind) # ""
  /\ exc' = OpenError(fileKind)
  /\ pc' = "aborted"
  /\ UNCHANGED <<fileKind, content, calls, handles, lns, idx, retval,
                 release, names, stdout>>

\* fh.readlines() returns the lines, each with its line end.
ReadLinesOk ==
  /\ pc = "readlines"
  /\ ReadError(fileKind) = ""
  /\ lns' = content
  /\ idx' = 0
  /\ pc' = "loop"
  /\ UNCHANGED <<fileKind, content, calls, handles, retval, exc,
                 release, names, stdout>>

\* fh.readlines() raises: the with statement closes the handle and the
\* exception leaves the function and the script.
ReadLinesFail ==
  /\ pc = "readlines"
  /\ ReadError(fileKind) # ""
  /\ handles' = handles - 1
  /\ exc' = ReadError(fileKind)
  /\ pc' = "aborted"
  /\ UNCHANGED <<fileKind, content, calls, lns, idx, retval,
                 release, names, stdout>>

\* Mutant: the lines are taken last to first.
CurrentLine_Reversed == lns[Len(lns) - idx]

\* for ln in fh.readlines():   the line the loop takes next
CurrentLine == lns[idx + 1]

\* Mutant: a line that does not match ends the scan with the default.
LoopStep_EarlyDefault ==
  /\ pc = "loop"
  /\ idx < Len(lns)
  /\ idx' = idx + 1
  /\ retval' = <<IF re_match(CurrentLine) THEN group1(CurrentLine)
                                          ELSE DefaultVersion>>
  /\ handles' = handles - 1
  /\ pc' = "return"
  /\ UNCHANGED <<fileKind, content, calls, lns, exc, release, names, stdout>>

\* Mutant: the return on a match leaves the handle open.
LoopStep_Leak ==
  /\ pc = "loop"
  /\ idx < Len(lns)
  /\ idx' = idx + 1
  /\ IF re_match(CurrentLine)
       THEN /\ retval' = <<group1(CurrentLine)>>
            /\ pc' = "return"
       ELSE UNCHANGED <<retval, pc>>
  /\ UNCHANGED <<fileKind, content, calls, handles, lns, exc, release,
                 names, stdout>>

\* One turn of the loop: m = re.match(...); if(m): return m.group(1)
\* The return leaves the with statement, which closes the handle.
LoopStep ==
  /\ pc = "loop"
  /\ idx < Len(lns)
  /\ idx' = idx + 1
  /\ IF re_match(CurrentLine)
       THEN /\ retval' = <<group1(CurrentLine)>>
            /\ handles' = handles - 1
            /\ pc' = "return"
       ELSE UNCHANGED <<retval, handles, pc>>
  /\ UNCHANGED <<fileKind, content, calls, lns, exc, release, names, stdout>>

\* The list is exhausted: the loop and the with statement are left, which
\* closes the handle.
LoopEnd ==
  /\ pc = "loop"
  /\ idx = Len(lns)
  /\ handles' = handles - 1
  /\ pc' = "default"
  /\ UNCHANGED <<fileKind, content, calls, lns, idx, retval, exc,
                 release, names, stdout>>

\* return '1.0.0'
ReturnDefault ==
  /\ pc = "default"
  /\ retval' = <<DefaultVersion>>
  /\ pc' = "return"
  /\ UNCHANGED <<fileKind, content, calls, handles, lns, idx, exc,
                 release, names, stdout>>

\* release = <the value returned>
AssignRelease ==
  /\ pc = "return"
  /\ release' = retval
  /\ names' = names \cup {"release"}
  /\ pc' = "print"
  /\ UNCHANGED <<fileKind, content, calls, handles, lns, idx, retval, exc,
                 stdout>>

\* Mutant: the version is printed before and after the banner is built.
PrintRelease_Twice ==
  /\ pc = "print"
  /\ stdout' = stdout \o <<"BUILD RELEASE: " \o release[1],
                           "BUILD RELEASE: " \o release[1]>>
  /\ pc' = "general"
  /\ UNCHANGED <<fileKind, content, calls, handles, lns, idx, retval, exc,
                 release, names>>

\* print('BUILD RELEASE:', release)
PrintRelease ==
  /\ pc = "print"
  /\ stdout' = Append(stdout, "BUILD RELEASE: " \o release[1])
  /\ pc' = "general"
  /\ UNCHANGED <<fileKind, content, calls, handles, lns, idx, retval, exc,
                 release, names>>

\* extensions = ..., templates_path = ..., exclude_patterns = ...
GeneralConfig ==
  /\ pc = "general"
  /\ names' = names \cup GeneralNames
  /\ pc' = "html"
  /\ UNCHANGED <<fileKind, content, calls, handles, lns, idx, retval, exc,
                 release, stdout>>

\* html_theme = ... to cautodoc_root = ..., the end of the script
HtmlConfig ==
  /\ pc = "html"
  /\ names' = names \cup HtmlNames
  /\ pc' = "done"
  /\ UNCHANGED <<fileKind, content, calls, handles, lns, idx, retval, exc,
                 release, stdout>>

Next ==
  \/ ProjectInfo
  \/ CallParse
  \/ OpenOk
  \/ OpenFail
  \/ ReadLinesOk
  \/ ReadLinesFail
  \/ LoopStep
  \/ LoopEnd
  \/ ReturnDefault
  \/ AssignRelease
  \/ PrintRelease
  \/ GeneralConfig
  \/ HtmlConfig

Spec == Init /\ [][Next]_vars

\* The interpreter runs the script statement by statement to its end.
FairSpec == Spec /\ WF_vars(Next)

TypeOK ==
  /\ fileKind \in FileKinds
  /\ content \in Files
  /\ pc \in {"project", "call", "open", "readlines", "loop", "default",
             "return", "print", "general", "html", "done", "aborted"}
  /\ calls \in 0..1
  /\ handles \in 0..1
  /\ idx \in 0..Len(lns)
  /\ Len(retval) <= 1
  /\ Len(release) <= 1

----------------------------------------------------------------------------
(* The parts of a line in the shape of a definition: indentation, the      *)
(* directive, a gap, the identifier, a gap, the value.                     *)

RECURSIVE RunLen(_, _, _)
\* The number of tokens of S in a row from position from on.
RunLen(ln, from, S) ==
  IF from <= Len(ln) /\ ln[from] \in S
    THEN 1 + RunLen(ln, from + 1, S)
    ELSE 0

Indent(ln) == RunLen(ln, 1, WsTokens)

IsDefineLine(ln) ==
  Indent(ln) + 1 <= Len(ln) /\ ln[Indent(ln) + 1] = "#define"

Gap1(ln) == RunLen(ln, Indent(ln) + 2, WsTokens)

IdentStart(ln) == Indent(ln) + 2 + Gap1(ln)

Identifier(ln) ==
  SubSeq(ln, IdentStart(ln),
         IdentStart(ln) + RunLen(ln, IdentStart(ln), WordTokens) - 1)

Gap2(ln) == RunLen(ln, IdentStart(ln) + Len(Identifier(ln)), WsTokens)

ValueStart(ln) == IdentStart(ln) + Len(Identifier(ln)) + Gap2(ln)

\* The value starts with a double quote.
OpensQuote(ln) == ValueStart(ln) <= Len(ln) /\ ln[ValueStart(ln)] = Q

\* The value is a string literal: an opening quote and, later, a closing one.
Enclosed(ln) ==
  OpensQuote(ln) /\ \E e \in (ValueStart(ln) + 1)..Len(ln) : ln[e] = Q

\* The text between the opening quote of the value and the next quote.
LiteralContent(ln) ==
  LET o == ValueStart(ln)
      c == CHOOSE e \in (o + 1)..Len(ln) :
             ln[e] = Q /\ \A k \in (o + 1)..(e - 1) : ln[k] # Q
  IN  Str(SubSeq(ln, o + 1, c - 1))

EndsInVersion(ln) ==
  Identifier(ln) # <<>> /\ Identifier(ln)[Len(Identifier(ln))] = "_VERSION"

\* The line without its indentation.
Unindented(ln) == SubSeq(ln, Indent(ln) + 1, Len(ln))

\* A define line whose value is not enclosed in double quotes.
Unquoted(ln) == IsDefineLine(ln) /\ ~Enclosed(ln)

\* A define line with a quoted value that lacks the word character before
\* the suffix, the gap after #define or the gap before the quote.
LacksPrefixOrGap(ln) ==
  /\ IsDefineLine(ln)
  /\ Indent(ln) = 0
  /\ EndsInVersion(ln)
  /\ Enclosed(ln)
  /\ \/ Identifier(ln) = <<"_VERSION">>
     \/ Gap1(ln) = 0
     \/ Gap2(ln) = 0

\* The lines of each shape.
DefineLines == { ln \in AllLines : IsDefineLine(ln) }

IndentedLines == { ln \in AllLines : Indent(ln) >= 1 }

\* The version definitions, indented or not.
DefinitionLines == { ln \in AllLines : re_match(Unindented(ln)) }

UnquotedLines == { ln \in AllLines : Unquoted(ln) }

SuffixLines == { ln \in DefineLines : EndsInVersion(ln) }

\* Define lines with a quoted value whose identifier goes on after _VERSION.
SuffixInsideLines ==
  { ln \in DefineLines \ SuffixLines :
      /\ Enclosed(ln)
      /\ \E k \in 1..Len(Identifier(ln)) : Identifier(ln)[k] = "_VERSION" }

LackingLines == { ln \in AllLines : LacksPrefixOrGap(ln) }

BareSuffixLines == { ln \in LackingLines : Identifier(ln) = <<"_VERSION">> }

NoGapBeforeQuoteLines ==
  { ln \in LackingLines :
      Gap2(ln) = 0 /\ Gap1(ln) >= 1 /\ Len(Identifier(ln)) >= 2 }

\* The lines of the file that match the pattern.
MatchingIndexes == { i \in 1..Len(content) : re_match(content[i]) }

FirstOf(S) == CHOOSE i \in S : \A j \in S : i <= j

\* parse_build_version has returned a value.
Returned == retval # <<>>

Banner(v) == "BUILD RELEASE: " \o v

----------------------------------------------------------------------------
(* The claims                                                              *)

\* C1: when the file has a matching line, the value returned is the one
\* captured from the matching line with the smallest index, and the scan
\* stopped there: no later line was looked at.
FirstMatchReturned ==
  Returned =>
    LET m == MatchingIndexes IN
    m # {} => /\ retval[1] = group1(content[FirstOf(m)])
              /\ idx = FirstOf(m)

\* C1 witness: two matching lines with different values; the first one's
\* value was returned.
FirstMatchReturned_Witness ==
  /\ pc = "done"
  /\ Len(content) >= 2
  /\ re_match(content[1])
  /\ re_match(content[2])
  /\ group1(content[1]) # group1(content[2])
  /\ retval[1] = group1(content[1])

\* C2: when no line of a readable file matches (the empty file included),
\* the value returned is exactly 1.0.0, and the default is returned only
\* once every line has been looked at.
DefaultAfterFullScan ==
  /\ Returned =>
       (MatchingIndexes = {} => retval[1] = "1.0.0" /\ idx = Len(content))
  /\ pc = "default" => idx = Len(content) /\ MatchingIndexes = {}

\* C2 witness: a file of at least one line, none matching, was scanned to
\* its end and 1.0.0 returned.
DefaultAfterFullScan_Witness ==
  /\ pc = "return"
  /\ Len(content) >= 1
  /\ MatchingIndexes = {}
  /\ idx = Len(content)
  /\ retval = <<"1.0.0">>

\* The file's only version definition is indented line i: without its
\* indentation it matches, and no other line is a version definition.
OnlyIndentedDefinition(i) ==
  /\ content[i] \in IndentedLines \cap DefinitionLines
  /\ \A j \in 1..Len(content) : j # i => content[j] \notin DefinitionLines

\* C3 as stated: a line with white space before #define that is otherwise
\* a well-formed version definition is matched, so a file whose only
\* version definition is indented yields that definition's value.
IndentedLineMatched ==
  Returned =>
    \A i \in 1..Len(content) :
       OnlyIndentedDefinition(i) =>
          retval[1] = group1(Unindented(content[i]))

\* C3 amended: a line with white space before #define is never matched,
\* so a file whose only version definition is indented yields 1.0.0.
IndentedLineNotMatched ==
  /\ \A i \in 1..Len(content) :
        content[i] \in IndentedLines => ~re_match(content[i])
  /\ Returned =>
       \A i \in 1..Len(content) :
          OnlyIndentedDefinition(i) =>
             retval[1] = "1.0.0" /\ idx = Len(content)

\* C3 witness: the only version definition of the file is indented and the
\* run reported 1.0.0.
IndentedLineNotMatched_Witness ==
  /\ pc = "done"
  /\ \E i \in 1..Len(content) : OnlyIndentedDefinition(i)
  /\ stdout = <<Banner("1.0.0")>>

\* C4: whenever a line matches, the value returned is the content of the
\* string literal after the identifier: the text between its opening
\* quote and the next double quote of the line.
LiteralContentReturned ==
  Returned =>
    LET m == MatchingIndexes IN
    m # {} => retval[1] = LiteralContent(content[FirstOf(m)])

\* C5: a line whose value is not enclosed in double quotes never matches
\* and never stops the scan; the result is the value of the first matching
\* line of the file with those lines removed, or 1.0.0 if it has none.
UnquotedLinesIgnored ==
  /\ \A i \in 1..Len(content) :
        content[i] \in UnquotedLines => ~re_match(content[i])
  /\ (Returned /\ idx >= 1) =>
        (content[idx] \in UnquotedLines =>
            idx = Len(content) /\ retval[1] = "1.0.0")
  /\ Returned =>
        LET kept == SelectSeq(content,
                      LAMBDA ln : ln \notin UnquotedLines /\ re_match(ln))
        IN  retval[1] = IF kept = <<>> THEN "1.0.0" ELSE group1(Head(kept))

\* C5 witness: an unquoted line comes first, a well-formed line after it,
\* and the well-formed line's value was returned.
UnquotedLinesIgnored_Witness ==
  /\ pc = "done"
  /\ Len(content) >= 2
  /\ content[1] \in UnquotedLines \cap SuffixLines
  /\ re_match(content[2])
  /\ retval[1] = group1(content[2])

\* C6: when the header file cannot be opened, parse_build_version returns
\* no value, the run aborts at the assignment of release, nothing is
\* printed and no configuration value after that assignment is bound.
OpenFailureAborts ==
  OpenError(fileKind) # "" =>
     /\ pc \in {"project", "call", "open", "aborted"}
     /\ retval = <<>>
     /\ release = <<>>
     /\ "release" \notin names
     /\ stdout = <<>>
     /\ names \cap (GeneralNames \cup HtmlNames) = {}
     /\ pc = "aborted" => exc = OpenError(fileKind) /\ calls = 1

\* C6 witness: the file is missing and the run has aborted.
OpenFailureAborts_Witness ==
  /\ pc = "aborted"
  /\ fileKind = "missing"
  /\ exc = "FileNotFoundError"
  /\ ProjectNames \subseteq names

\* What C7 says of every run apart from the cause of an abort.
RunOutcome ==
  /\ calls <= 1
  /\ pc \notin {"project", "call"} => calls = 1
  /\ pc \notin {"done", "aborted"} => ENABLED Next
  /\ Len(stdout) <= 1
  /\ stdout # <<>> => Returned /\ stdout = <<Banner(retval[1])>>
                               /\ release = retval
  /\ pc = "done" => stdout # <<>> /\ exc = ""
  /\ pc = "aborted" => stdout = <<>> /\ retval = <<>> /\ exc # ""
  /\ pc = "done" =>
       (MatchingIndexes = {} => stdout = <<Banner("1.0.0")>>)

\* C7 as stated: the extractor is invoked exactly once; the run either
\* completes, having printed once the value the extractor returned, which
\* is release, or aborts, and it aborts only when the header file could
\* not be opened; a file that opens and has no matching line leads to
\* completion with 1.0.0 reported.
AbortOnlyOnOpenFailure ==
  /\ RunOutcome
  /\ pc = "aborted" => OpenError(fileKind) # ""

\* The run aborts only when open or readlines raised.
AbortOnlyOnFileFailure ==
  /\ RunOutcome
  /\ pc = "aborted" => OpenError(fileKind) # "" \/ ReadError(fileKind) # ""
  /\ fileKind = "ok" => pc # "aborted"

\* C7 amended: as stated, but the run aborts only when the header file
\* could not be opened or reading it raised; every run ends, completed or
\* aborted, and a file that opens, is read and has no matching line leads
\* to completion with 1.0.0 reported.
RunCompletesOrAborts ==
  /\ []AbortOnlyOnFileFailure
  /\ <>(pc \in {"done", "aborted"})

\* C7 witness: a readable file without a matching line; the run completed
\* and printed 1.0.0 once.
RunCompletesOrAborts_Witness ==
  /\ pc = "done"
  /\ calls = 1
  /\ Len(content) >= 1
  /\ MatchingIndexes = {}
  /\ stdout = <<Banner("1.0.0")>>
  /\ release = <<"1.0.0">>

\* C8: at most one read handle is ever open, and none is open once
\* parse_build_version has been left, by a return on a match, by the
\* return of the default or by an exception raised while reading; so none
\* is open when the version is printed.
HandleReleased ==
  /\ handles \in {0, 1}
  /\ handles = 1 => pc \in {"readlines", "loop"}
  /\ pc \in {"readlines", "loop"} => handles = 1

\* C8 witness: the function returned on a matching line before the end of
\* the file, and no handle is open at the print.
HandleReleased_Witness ==
  /\ pc = "print"
  /\ MatchingIndexes # {}
  /\ idx < Len(content)
  /\ handles = 0

\* C9: a line is matched only if the identifier after #define ends in
\* _VERSION; a define line whose identifier does not is never matched,
\* even with a quoted value, and the scan continues past it.
SuffixRequired ==
  /\ \A i \in 1..Len(content) :
        content[i] \notin SuffixLines => ~re_match(content[i])
  /\ (Returned /\ idx >= 1) =>
        (content[idx] \notin SuffixLines =>
            idx = Len(content) /\ retval[1] = "1.0.0")

\* C9 witness: a define line with a quoted value whose identifier goes on
\* after _VERSION comes first; the scan went past it and returned the
\* value of the next line.
SuffixRequired_Witness ==
  /\ pc = "done"
  /\ Len(content) >= 2
  /\ content[1] \in SuffixInsideLines
  /\ idx = 2
  /\ re_match(content[2])
  /\ retval[1] = group1(content[2])

\* C10: a define line whose identifier is _VERSION alone, or that has no
\* white space between #define and the identifier or between the
\* identifier and the opening quote, is not matched, and a file whose only
\* candidates are such lines yields 1.0.0.
PrefixAndGapsRequired ==
  /\ \A i \in 1..Len(content) :
        content[i] \in LackingLines => ~re_match(content[i])
  /\ Returned =>
       ( (\A i \in 1..Len(content) :
             content[i] \in LackingLines \/ content[i] \notin DefineLines)
         => retval[1] = "1.0.0" /\ idx = Len(content) )

\* C10 witness: the file holds a line with the bare suffix as identifier
\* and a line without the gap before the quote, and the run reported 1.0.0.
PrefixAndGapsRequired_Witness ==
  /\ pc = "done"
  /\ Len(content) = 2
  /\ \E i, j \in 1..2 :
        content[i] \in BareSuffixLines /\ content[j] \in NoGapBeforeQuoteLines
  /\ stdout = <<Banner("1.0.0")>>

====
